---- MODULE Spec2Model ----
(***************************************************************************)
(* LSM303 magnetometer driver (src/src/magnetometer.rs).                   *)
(*                                                                         *)
(* The driver owns an I2C device handle and one piece of mutable state,    *)
(* the recorded gain.  Every public operation is a short, fixed sequence   *)
(* of bus transactions.  One action of this model is one bus transaction   *)
(* together with the code that runs up to the next transaction or to the   *)
(* return of the operation; pc is the position of the single caller.       *)
(***************************************************************************)
EXTENDS Integers, Sequences, FiniteSets

VARIABLES
    pc,         \* position of the caller: "start", "init_mode", "init_cra",
                \* "idle", "sg_write", "failed"
    constructed,\* a Magnetometer value exists
    gain,       \* Magnetometer.gain (NoGain while no Magnetometer exists)
    device,     \* the registers of the chip behind Magnetometer.device
    openAddr,   \* the bus address Magnetometer::new opened (NoAddr if none)
    initBus,    \* the bus transactions issued by from_i2c_device
    bus,        \* the bus transactions issued by the current / last method call
    op,         \* the current / last operation
    arg,        \* set_gain's argument (NoGain otherwise)
    flags,      \* set_gain's local `flags`, live between its read and write
    ret,        \* what the last completed operation returned
    lastSet,    \* history: gain of the last set_gain whose write succeeded
    nCalls,     \* history: number of read_* calls made
    nReads      \* history: number of block reads the transport has seen

vars == <<pc, constructed, gain, device, openAddr, initBus, bus, op, arg,
          flags, ret, lastSet, nCalls, nReads>>

----------------------------------------------------------------------------
(* Bounds of the model *)

\* read_magnetic_field / read_temperature calls in one behaviour
MaxCalls == 2

----------------------------------------------------------------------------
(* 8-bit and 16-bit arithmetic *)

RECURSIVE BitAnd(_, _)
BitAnd(a, b) ==
    IF a = 0 \/ b = 0 THEN 0
    ELSE (a % 2) * (b % 2) + 2 * BitAnd(a \div 2, b \div 2)

RECURSIVE BitOr(_, _)
BitOr(a, b) ==
    IF a = 0 THEN b
    ELSE IF b = 0 THEN a
    ELSE (IF a % 2 = 1 \/ b % 2 = 1 THEN 1 ELSE 0)
         + 2 * BitOr(a \div 2, b \div 2)

\* !x on a u8
BitNot8(a) == 255 - a

RECURSIVE Shr(_, _)
Shr(a, n) == IF n = 0 THEN a ELSE Shr(a \div 2, n - 1)

\* a slip: floor division (what an arithmetic shift by 4 would give)
FloorDiv(a, b) == a \div b

\* Rust's `/` on signed integers: the quotient truncated toward zero
TruncDiv(a, b) ==
    IF a >= 0 THEN a \div b ELSE -((-a) \div b)

\* a u16 bit pattern read as an i16
AsI16(u) == IF u >= 32768 THEN u - 65536 ELSE u

----------------------------------------------------------------------------
(* Register model (crate module `registers`) *)

MR_REG_M     == 2      \* 0x02
CRA_REG_M    == 0      \* 0x00
CRB_REG_M    == 1      \* 0x01
OUT_X_H_M    == 3      \* 0x03
TEMP_OUT_H_M == 49     \* 0x31

TEMP_EN == 128         \* CRA_REG_M bit 7
DO2     == 16          \* CRA_REG_M bit 4
GN2     == 128         \* CRB_REG_M bit 7
GN1     == 64          \* CRB_REG_M bit 6
GN0     == 32          \* CRB_REG_M bit 5

\* MrRegM::empty()
MrRegM_empty == 0

\* bitflags: self.remove(other), self.insert(other), on u8 flag sets
remove(f, other) == BitAnd(f, BitNot8(other))
insert(f, other) == BitOr(f, other)

\* the chip's registers at power-on; the gain selector holds +/-1.3
PowerOn == [r \in {MR_REG_M, CRA_REG_M, CRB_REG_M} |->
              IF r = MR_REG_M THEN 3
              ELSE IF r = CRA_REG_M THEN 16
              ELSE GN0]

----------------------------------------------------------------------------
(* The driver's types *)

Gain == {"Gain_1_3", "Gain_1_9", "Gain_2_5", "Gain_4_0",
         "Gain_4_7", "Gain_5_6", "Gain_8_1"}
NoGain == "none"
NoAddr == -1

\* a slip: the 8-bit write address is used as it stands
I2C_ADDRESS_Unshifted == Shr(60, 0)

I2C_ADDRESS == Shr(60, 1)

Ok(v)  == [ok |-> TRUE,  kind |-> "none", val |-> v]
Err(k) == [ok |-> FALSE, kind |-> k,      val |-> <<>>]
NoRet  == [ok |-> TRUE,  kind |-> "pending", val |-> <<>>]

\* one bus transaction as the transport sees it
WriteTxn(reg, v, ok) ==
    [kind |-> "write", reg |-> reg, val |-> v, len |-> 1, ok |-> ok, data |-> <<>>]
ReadTxn(reg, ok, v) ==
    [kind |-> "read", reg |-> reg, val |-> v, len |-> 1, ok |-> ok, data |-> <<>>]
BlockTxn(reg, n, ok, d) ==
    [kind |-> "read_block", reg |-> reg, val |-> 0, len |-> n, ok |-> ok, data |-> d]

\* the device after a write transaction: a failed write changes nothing
Written(dev, reg, v, ok) ==
    IF ok /\ reg \in DOMAIN dev THEN [dev EXCEPT ![reg] = v] ELSE dev

----------------------------------------------------------------------------
(* What the transport can answer *)

\* a u16 as the two bytes the chip puts on the wire, high byte first
Bytes(w) == <<w \div 256, w % 256>>

\* 16-bit samples of the output registers: 0x000A, 0x0014, 0x001E, 0xFFF8
FieldWords == {10, 20, 30, 65528}

\* a block read of 6 bytes returns at most 6 bytes
FieldResponses ==
    {SubSeq(Bytes(a) \o Bytes(b) \o Bytes(c), 1, n) :
        a \in FieldWords, b \in FieldWords, c \in FieldWords, n \in 0..6}

\* 0x0020, 0xFFF0, 0xFFF8, 0x8000, 0x7FFF, 0x000F, 0xFFFF, 0x0000
TempWords == {32, 65520, 65528, 32768, 32767, 15, 65535, 0}

TempResponses == {SubSeq(Bytes(w), 1, n) : w \in TempWords, n \in 0..2}

\* values a caller writes to control register B through the raw transport
RawBytes == {0, 1, 31, 32, 128, 165, 224, 255}

----------------------------------------------------------------------------
(* Magnetometer::new and Magnetometer::from_i2c_device *)

\* r::MrRegM::empty()
mr_reg_m == MrRegM_empty

\* a slip: the data-rate flag is left out
cra_reg_m_NoRate == TEMP_EN

\* r::TEMP_EN | r::DO2
cra_reg_m == BitOr(TEMP_EN, DO2)

\* `?` after the mode register write
AfterModeWrite(ok) == IF ok THEN "init_cra" ELSE "failed"

\* a slip: the result of the write is dropped instead of propagated
AfterCraWrite_Ignored(ok) == "idle"

\* `?` after the control register A write
AfterCraWrite(ok) == IF ok THEN "idle" ELSE "failed"

\* a slip: the open error is propagated as it is, without chain_err
new_open_NoChainErr ==
    /\ pc = "start"
    /\ op = "none"
    /\ \E ok \in BOOLEAN :
        /\ op' = "new"
        /\ openAddr' = I2C_ADDRESS
        /\ pc' = IF ok THEN "init_mode" ELSE "failed"
        /\ ret' = IF ok THEN NoRet ELSE Err("Transport")
    /\ UNCHANGED <<constructed, gain, device, initBus, bus, arg, flags,
                   lastSet, nCalls, nReads>>

\* LinuxI2CDevice::new(&path, I2C_ADDRESS).chain_err(|| FailedToOpenDevice)?
new_open ==
    /\ pc = "start"
    /\ op = "none"
    /\ \E ok \in BOOLEAN :
        /\ op' = "new"
        /\ openAddr' = I2C_ADDRESS
        /\ pc' = IF ok THEN "init_mode" ELSE "failed"
        /\ ret' = IF ok THEN NoRet ELSE Err("FailedToOpenDevice")
    /\ UNCHANGED <<constructed, gain, device, initBus, bus, arg, flags,
                   lastSet, nCalls, nReads>>

\* write_register!(device, r::MR_REG_M, mr_reg_m)?
from_i2c_device_mode ==
    /\ pc \in {"start", "init_mode"}
    /\ \E ok \in BOOLEAN :
        /\ initBus' = Append(initBus, WriteTxn(MR_REG_M, mr_reg_m, ok))
        /\ device' = Written(device, MR_REG_M, mr_reg_m, ok)
        /\ pc' = AfterModeWrite(ok)
        /\ ret' = IF pc' = "failed" THEN Err("Transport") ELSE NoRet
    /\ op' = IF op = "new" THEN "new" ELSE "from_i2c_device"
    /\ UNCHANGED <<constructed, gain, openAddr, bus, arg, flags,
                   lastSet, nCalls, nReads>>

\* write_register!(device, r::CRA_REG_M, cra_reg_m)?;
\* Ok(Magnetometer { device, gain: Gain::Gain_1_3 })
from_i2c_device_cra ==
    /\ pc = "init_cra"
    /\ \E ok \in BOOLEAN :
        /\ initBus' = Append(initBus, WriteTxn(CRA_REG_M, cra_reg_m, ok))
        /\ device' = Written(device, CRA_REG_M, cra_reg_m, ok)
        /\ pc' = AfterCraWrite(ok)
        /\ constructed' = (pc' = "idle")
        /\ gain' = IF pc' = "idle" THEN "Gain_1_3" ELSE NoGain
        /\ ret' = IF pc' = "idle" THEN Ok(<<>>) ELSE Err("Transport")
    /\ UNCHANGED <<openAddr, bus, op, arg, flags, lastSet, nCalls, nReads>>

----------------------------------------------------------------------------
(* Magnetometer::set_gain *)

\* a slip: two arms of the match give the same bits
setting_Duplicate(g) ==
    CASE g = "Gain_1_3" -> GN0
      [] g = "Gain_1_9" -> GN1
      [] g = "Gain_2_5" -> BitOr(GN1, GN0)
      [] g = "Gain_4_0" -> GN2
      [] g = "Gain_4_7" -> BitOr(GN2, GN1)
      [] g = "Gain_5_6" -> BitOr(GN2, GN1)
      [] g = "Gain_8_1" -> BitOr(BitOr(GN2, GN1), GN0)

\* the match on `gain`
setting(g) ==
    CASE g = "Gain_1_3" -> GN0
      [] g = "Gain_1_9" -> GN1
      [] g = "Gain_2_5" -> BitOr(GN1, GN0)
      [] g = "Gain_4_0" -> GN2
      [] g = "Gain_4_7" -> BitOr(GN2, GN0)
      [] g = "Gain_5_6" -> BitOr(GN2, GN1)
      [] g = "Gain_8_1" -> BitOr(BitOr(GN2, GN1), GN0)

\* r::GN2 | r::GN1 | r::GN0
GN_MASK == BitOr(BitOr(GN2, GN1), GN0)

\* a slip: the old selector bits are not cleared before the new ones are set
NewFlags_NoRemove(f, g) == insert(f, setting(g))

\* a slip: the new pattern is written alone, the bits read are dropped
NewFlags_Overwrite(f, g) == setting(g)

\* flags.remove(GN2 | GN1 | GN0); flags.insert(setting)
NewFlags(f, g) == insert(remove(f, GN_MASK), setting(g))

\* read_register!: the byte read, as a CrbRegM
CrbRegM_from_bits(v) == v % 256

\* a slip: a failed read is not propagated and the write still follows
AfterCrbRead_Continue(ok) == "sg_write"

\* `?` after the control register B read
AfterCrbRead(ok) == IF ok THEN "sg_write" ELSE "idle"

\* a slip: self.gain = gain placed before the write
GainAfterCrbWrite_Early(old, new, ok) == new

\* a slip: a failed write resets the recorded gain to the default
GainAfterCrbWrite_Reset(old, new, ok) == IF ok THEN new ELSE "Gain_1_3"

\* write_register!(...)?; self.gain = gain;
GainAfterCrbWrite(old, new, ok) == IF ok THEN new ELSE old

\* a slip: the selector bits are cleared on the device by a write of their
\* own, before the write that sets the new pattern
set_gain_read_ClearFirst ==
    /\ pc = "idle"
    /\ \E g \in Gain, ok \in BOOLEAN :
        /\ op' = "set_gain"
        /\ arg' = g
        /\ bus' = IF ok
                  THEN <<ReadTxn(CRB_REG_M, ok, device[CRB_REG_M]),
                         WriteTxn(CRB_REG_M,
                                  remove(CrbRegM_from_bits(device[CRB_REG_M]), GN_MASK),
                                  TRUE)>>
                  ELSE <<ReadTxn(CRB_REG_M, ok, 0)>>
        /\ device' = IF ok
                     THEN Written(device, CRB_REG_M,
                                  remove(CrbRegM_from_bits(device[CRB_REG_M]), GN_MASK),
                                  TRUE)
                     ELSE device
        /\ flags' = IF ok THEN CrbRegM_from_bits(device[CRB_REG_M]) ELSE 0
        /\ pc' = AfterCrbRead(ok)
        /\ ret' = IF pc' = "idle" THEN Err("Transport") ELSE NoRet
    /\ UNCHANGED <<constructed, gain, openAddr, initBus, lastSet,
                   nCalls, nReads>>

\* a slip: the requested gain is recorded as soon as the register was read
set_gain_read_RecordsGain ==
    /\ pc = "idle"
    /\ \E g \in Gain, ok \in BOOLEAN :
        /\ op' = "set_gain"
        /\ arg' = g
        /\ bus' = <<ReadTxn(CRB_REG_M, ok, IF ok THEN device[CRB_REG_M] ELSE 0)>>
        /\ flags' = IF ok THEN CrbRegM_from_bits(device[CRB_REG_M]) ELSE 0
        /\ pc' = AfterCrbRead(ok)
        /\ gain' = IF ok THEN g ELSE gain
        /\ ret' = IF pc' = "idle" THEN Err("Transport") ELSE NoRet
    /\ UNCHANGED <<constructed, device, openAddr, initBus, lastSet,
                   nCalls, nReads>>

\* let mut flags = read_register!(self.device, CRB_REG_M, CrbRegM)?
set_gain_read ==
    /\ pc = "idle"
    /\ \E g \in Gain, ok \in BOOLEAN :
        /\ op' = "set_gain"
        /\ arg' = g
        /\ bus' = <<ReadTxn(CRB_REG_M, ok, IF ok THEN device[CRB_REG_M] ELSE 0)>>
        /\ flags' = IF ok THEN CrbRegM_from_bits(device[CRB_REG_M]) ELSE 0
        /\ pc' = AfterCrbRead(ok)
        /\ ret' = IF pc' = "idle" THEN Err("Transport") ELSE NoRet
    /\ UNCHANGED <<constructed, gain, device, openAddr, initBus, lastSet,
                   nCalls, nReads>>

\* write_register!(self.device, CRB_REG_M, flags)?; self.gain = gain; Ok(())
set_gain_write ==
    /\ pc = "sg_write"
    /\ \E ok \in BOOLEAN :
        /\ bus' = Append(bus, WriteTxn(CRB_REG_M, NewFlags(flags, arg), ok))
        /\ device' = Written(device, CRB_REG_M, NewFlags(flags, arg), ok)
        /\ gain' = GainAfterCrbWrite(gain, arg, ok)
        /\ lastSet' = IF ok THEN arg ELSE lastSet
        /\ ret' = IF ok THEN Ok(<<>>) ELSE Err("Transport")
    /\ pc' = "idle"
    /\ flags' = 0
    /\ UNCHANGED <<constructed, openAddr, initBus, op, arg, nCalls, nReads>>

----------------------------------------------------------------------------
(* Magnetometer::read_magnetic_field and Magnetometer::read_temperature *)

\* cursor.read_i16::<BigEndian>() at position pos of data
read_i16_BE(data, pos) ==
    IF Len(data) - pos < 2
    THEN [ok |-> FALSE, val |-> 0, pos |-> pos]
    ELSE [ok |-> TRUE,
          val |-> AsI16(data[pos + 1] * 256 + data[pos + 2]),
          pos |-> pos + 2]

\* a slip: the values are returned in wire order
DecodeField_WireOrder(data) ==
    IF Len(data) < 6 THEN Err("NotEnoughData")
    ELSE LET x == read_i16_BE(data, 0)
             z == read_i16_BE(data, x.pos)
             y == read_i16_BE(data, z.pos)
         IN  IF ~x.ok \/ ~z.ok \/ ~y.ok THEN Err("Io")
             ELSE Ok(<<x.val, z.val, y.val>>)

\* a slip: no length check, a short read surfaces in the cursor reads
DecodeField_NoLenCheck(data) ==
    LET x == read_i16_BE(data, 0)
        z == read_i16_BE(data, x.pos)
        y == read_i16_BE(data, z.pos)
    IN  IF ~x.ok \/ ~z.ok \/ ~y.ok THEN Err("Io")
        ELSE Ok(<<x.val, y.val, z.val>>)

\* the length check and the three reads of read_magnetic_field
DecodeField(data) ==
    IF Len(data) < 6 THEN Err("NotEnoughData")
    ELSE LET x == read_i16_BE(data, 0)
             z == read_i16_BE(data, x.pos)
             y == read_i16_BE(data, z.pos)
         IN  IF ~x.ok \/ ~z.ok \/ ~y.ok THEN Err("Io")
             ELSE Ok(<<x.val, y.val, z.val>>)

\* a slip: a failed cursor read is replaced by 0 instead of propagated
DecodeTemp_Default(data) ==
    LET t == read_i16_BE(data, 0)
    IN  IF ~t.ok THEN Ok(<<0>>) ELSE Ok(<<TruncDiv(t.val, 16)>>)

\* cursor.read_i16::<BigEndian>()? / 16
DecodeTemp(data) ==
    LET t == read_i16_BE(data, 0)
    IN  IF ~t.ok THEN Err("Io") ELSE Ok(<<TruncDiv(t.val, 16)>>)

\* the block reads among the transactions of one call
BlockReads(txns) == Len(SelectSeq(txns, LAMBDA t : t.kind = "read_block"))

\* a slip: a reading already obtained is handed out again without a bus read
read_magnetic_field_Cached ==
    /\ pc = "idle"
    /\ nCalls < MaxCalls
    /\ \E ok \in BOOLEAN, data \in FieldResponses :
        /\ ok \/ data = <<>>
        /\ IF op = "read_magnetic_field" /\ ret.ok
           THEN bus' = <<>> /\ ret' = ret
           ELSE /\ bus' = <<BlockTxn(OUT_X_H_M, 6, ok, data)>>
                /\ ret' = IF ok THEN DecodeField(data) ELSE Err("Transport")
    /\ op' = "read_magnetic_field"
    /\ arg' = NoGain
    /\ nCalls' = nCalls + 1
    /\ nReads' = nReads + BlockReads(bus')
    /\ UNCHANGED <<pc, constructed, gain, device, openAddr, initBus, flags,
                   lastSet>>

read_magnetic_field ==
    /\ pc = "idle"
    /\ nCalls < MaxCalls
    /\ \E ok \in BOOLEAN, data \in FieldResponses :
        /\ ok \/ data = <<>>
        /\ bus' = <<BlockTxn(OUT_X_H_M, 6, ok, data)>>
        /\ ret' = IF ok THEN DecodeField(data) ELSE Err("Transport")
    /\ op' = "read_magnetic_field"
    /\ arg' = NoGain
    /\ nCalls' = nCalls + 1
    /\ nReads' = nReads + BlockReads(bus')
    /\ UNCHANGED <<pc, constructed, gain, device, openAddr, initBus, flags,
                   lastSet>>

\* a slip: the temperature sensor is (re-)enabled by a write before each read
read_temperature_Enables ==
    /\ pc = "idle"
    /\ nCalls < MaxCalls
    /\ \E ok \in BOOLEAN, data \in TempResponses :
        /\ ok \/ data = <<>>
        /\ bus' = <<WriteTxn(CRA_REG_M, cra_reg_m, TRUE),
                    BlockTxn(TEMP_OUT_H_M, 2, ok, data)>>
        /\ ret' = IF ok THEN DecodeTemp(data) ELSE Err("Transport")
    /\ device' = Written(device, CRA_REG_M, cra_reg_m, TRUE)
    /\ op' = "read_temperature"
    /\ arg' = NoGain
    /\ nCalls' = nCalls + 1
    /\ nReads' = nReads + BlockReads(bus')
    /\ UNCHANGED <<pc, constructed, gain, openAddr, initBus, flags,
                   lastSet>>

read_temperature ==
    /\ pc = "idle"
    /\ nCalls < MaxCalls
    /\ \E ok \in BOOLEAN, data \in TempResponses :
        /\ ok \/ data = <<>>
        /\ bus' = <<BlockTxn(TEMP_OUT_H_M, 2, ok, data)>>
        /\ ret' = IF ok THEN DecodeTemp(data) ELSE Err("Transport")
    /\ op' = "read_temperature"
    /\ arg' = NoGain
    /\ nCalls' = nCalls + 1
    /\ nReads' = nReads + BlockReads(bus')
    /\ UNCHANGED <<pc, constructed, gain, device, openAddr, initBus, flags,
                   lastSet>>

----------------------------------------------------------------------------
(* Deref / DerefMut: the caller drives the transport itself *)

raw_write ==
    /\ pc = "idle"
    /\ \E v \in RawBytes, ok \in BOOLEAN :
        /\ bus' = <<WriteTxn(CRB_REG_M, v, ok)>>
        /\ device' = Written(device, CRB_REG_M, v, ok)
        /\ ret' = IF ok THEN Ok(<<>>) ELSE Err("Transport")
    /\ op' = "raw_write"
    /\ arg' = NoGain
    /\ UNCHANGED <<pc, constructed, gain, openAddr, initBus, flags, lastSet,
                   nCalls, nReads>>

----------------------------------------------------------------------------
(* Specifications *)

Init ==
    /\ pc = "start"
    /\ constructed = FALSE
    /\ gain = NoGain
    /\ device = PowerOn
    /\ openAddr = NoAddr
    /\ initBus = <<>>
    /\ bus = <<>>
    /\ op = "none"
    /\ arg = NoGain
    /\ flags = 0
    /\ ret = NoRet
    /\ lastSet = "Gain_1_3"
    /\ nCalls = 0
    /\ nReads = 0

\* the driver used through its own methods only
Next ==
    \/ new_open
    \/ from_i2c_device_mode
    \/ from_i2c_device_cra
    \/ set_gain_read
    \/ set_gain_write
    \/ read_magnetic_field
    \/ read_temperature

Spec == Init /\ [][Next]_vars

\* the driver used through its methods and through the raw transport
NextRaw == Next \/ raw_write

SpecRaw == Init /\ [][NextRaw]_vars

----------------------------------------------------------------------------
(* Properties *)

\* the selector bits the datasheet documents for each gain (GN2 GN1 GN0 are
\* bits 7, 6, 5 of control register B)
DocumentedPattern(g) ==
    CASE g = "Gain_1_3" -> 32
      [] g = "Gain_1_9" -> 64
      [] g = "Gain_2_5" -> 96
      [] g = "Gain_4_0" -> 128
      [] g = "Gain_4_7" -> 160
      [] g = "Gain_5_6" -> 192
      [] g = "Gain_8_1" -> 224

\* bits 7..5 of a register value, as a number 0, 32, .. 224
SelectorBits(v) == (v \div 32) * 32

\* the big-endian signed 16-bit value of two wire bytes
S16(hi, lo) == IF hi >= 128 THEN (hi - 256) * 256 + lo ELSE hi * 256 + lo

LastTxn(txns) == txns[Len(txns)]

\* C1: without raw transport access, whenever a Magnetometer exists its
\* recorded gain is the gain of the most recent set_gain whose write
\* succeeded (+/-1.3 if none did), and the documented pattern of that gain
\* is what the selector bits of control register B hold.
C1_GainReflectsDevice ==
    constructed =>
        /\ gain = lastSet
        /\ DocumentedPattern(gain) = SelectorBits(device[CRB_REG_M])

\* C1 witness: a set_gain whose write failed after an earlier set_gain to
\* another, non-default gain had succeeded
C1_Witness ==
    /\ constructed /\ pc = "idle" /\ op = "set_gain"
    /\ Len(bus) = 2 /\ ~bus[2].ok
    /\ gain = "Gain_5_6" /\ arg = "Gain_8_1"
    /\ device[CRB_REG_M] = 192

\* C2: a set_gain that fails, at the read or at the write of control
\* register B, returns an error and leaves the recorded gain as it was
\* before the call (the step that only reads leaves it alone as well).
C2_FailedSetGainKeepsGain ==
    [][ op' = "set_gain" =>
          /\ pc' = "sg_write" => gain' = gain
          /\ (pc' = "idle" /\ ~LastTxn(bus').ok) =>
                (~ret'.ok /\ gain' = gain) ]_vars

\* C2 witness: set_gain(+/-4.0) failed at its write while +/-2.5 was recorded
C2_Witness ==
    /\ pc = "idle" /\ op = "set_gain" /\ ~ret.ok
    /\ Len(bus) = 2 /\ bus[1].ok /\ ~bus[2].ok
    /\ arg = "Gain_4_0" /\ gain = "Gain_2_5"

\* C3: after a successful set_gain(g), whatever control register B held
\* before, its three selector bits are exactly the documented pattern of g.
\* Between the read and the write the same is checked of the value set_gain
\* would write for each of the 256 values the read can have returned.
C3_ExactSelectorBits ==
    /\ (op = "set_gain" /\ pc = "idle" /\ ret.ok) =>
          SelectorBits(device[CRB_REG_M]) = DocumentedPattern(arg)
    /\ (op = "set_gain" /\ pc = "sg_write") =>
          \A v \in 0..255 :
              SelectorBits(NewFlags(CrbRegM_from_bits(v), arg))
                  = DocumentedPattern(arg)

\* C3 witness: set_gain(+/-1.3) succeeded on a register that read 0xFF
C3_Witness ==
    /\ op = "set_gain" /\ pc = "idle" /\ ret.ok
    /\ bus[1].val = 255 /\ arg = "Gain_1_3"
    /\ device[CRB_REG_M] = 63

\* C4: a successful construction has issued exactly two bus transactions,
\* the write of 0 to the mode register and then the write of TEMP_EN | DO2
\* to control register A, and the new driver records +/-1.3.
C4_ConstructionWrites ==
    /\ constructed =>
          initBus = << WriteTxn(MR_REG_M, 0, TRUE),
                       WriteTxn(CRA_REG_M, TEMP_EN + DO2, TRUE) >>
    /\ (constructed /\ op \in {"new", "from_i2c_device"}) =>
          (gain = "Gain_1_3" /\ bus = <<>>)

\* C4 witness: from_i2c_device has just returned a driver
C4_Witness ==
    /\ constructed /\ pc = "idle" /\ op = "from_i2c_device"
    /\ Len(initBus) = 2 /\ ret.ok

\* C5: a Magnetometer exists only if both initialisation writes succeeded;
\* when either fails construction returns an error and there is no driver.
C5_ConstructionAllOrNothing ==
    /\ constructed <=>
          (Len(initBus) = 2 /\ initBus[1].ok /\ initBus[2].ok)
    /\ (\E i \in 1..Len(initBus) : ~initBus[i].ok) =>
          (pc = "failed" /\ ~constructed /\ gain = NoGain /\ ~ret.ok)

\* C5 witness: the mode write succeeded and the control register A write failed
C5_Witness ==
    /\ pc = "failed" /\ ~constructed
    /\ Len(initBus) = 2 /\ initBus[1].ok /\ ~initBus[2].ok

\* C6: a 6-byte response b0..b5 is returned as (x, y, z) with x from
\* (b0,b1), z from (b2,b3) and y from (b4,b5), each big-endian signed;
\* 00 0A 00 14 00 1E gives (10, 30, 20).
C6_FieldDecoding ==
    (op = "read_magnetic_field" /\ bus[1].ok /\ Len(bus[1].data) = 6) =>
        LET b == bus[1].data
        IN  /\ ret = Ok(<< S16(b[1], b[2]), S16(b[5], b[6]), S16(b[3], b[4]) >>)
            /\ b = <<0, 10, 0, 20, 0, 30>> => ret.val = <<10, 30, 20>>

\* C6 witness: a reading whose wire Y has the high bit set
C6_Witness ==
    /\ op = "read_magnetic_field" /\ bus[1].ok
    /\ bus[1].data = <<0, 10, 0, 20, 255, 248>>
    /\ ret.val = <<10, -8, 20>>

\* C7: a block read that succeeds with fewer than 6 bytes makes
\* read_magnetic_field fail with NotEnoughData; a triple is returned only
\* from at least 6 bytes.
C7_ShortFieldRead ==
    op = "read_magnetic_field" =>
        /\ (bus[1].ok /\ Len(bus[1].data) < 6) => ret = Err("NotEnoughData")
        /\ ret.ok => (bus[1].ok /\ Len(bus[1].data) >= 6 /\ Len(ret.val) = 3)

\* C7 witness: five bytes came back
C7_Witness ==
    /\ op = "read_magnetic_field" /\ bus[1].ok /\ Len(bus[1].data) = 5
    /\ ~ret.ok /\ ret.kind = "NotEnoughData"

\* C8: a 2-byte response (hi, lo) is returned as its big-endian signed value
\* divided by 16 and truncated toward zero: 00 20 -> 2, FF F0 -> -1,
\* FF F8 -> 0.
C8_TemperatureTruncates ==
    (op = "read_temperature" /\ bus[1].ok /\ Len(bus[1].data) = 2) =>
        LET b == bus[1].data
            v == S16(b[1], b[2])
        IN  /\ ret.ok /\ Len(ret.val) = 1
            /\ LET q == ret.val[1]
               IN  IF v >= 0 THEN 16 * q <= v /\ v < 16 * q + 16
                             ELSE 16 * q >= v /\ v > 16 * q - 16
            /\ b = <<0, 32>> => ret.val = <<2>>
            /\ b = <<255, 240>> => ret.val = <<-1>>
            /\ b = <<255, 248>> => ret.val = <<0>>

\* C8 witness: FF F8 was read and 0 returned
C8_Witness ==
    /\ op = "read_temperature" /\ bus[1].ok
    /\ bus[1].data = <<255, 248>> /\ ret = Ok(<<0>>)

\* C9: every read call issues exactly one block read (6 bytes at OUT_X_H_M,
\* 2 bytes at TEMP_OUT_H_M), so the transport has seen as many block reads
\* as there were read calls, and the result of a call is decoded from the
\* bytes of its own transaction: when two calls of read_magnetic_field in a
\* row get different 6-byte answers they return different values.
C9_OneBlockReadPerCall ==
    /\ nReads = nCalls
    /\ op = "read_magnetic_field" =>
          /\ Len(bus) = 1 /\ bus[1].kind = "read_block"
          /\ bus[1].reg = OUT_X_H_M /\ bus[1].len = 6
          /\ bus[1].ok => ret = DecodeField(bus[1].data)
    /\ op = "read_temperature" =>
          /\ Len(bus) = 1 /\ bus[1].kind = "read_block"
          /\ bus[1].reg = TEMP_OUT_H_M /\ bus[1].len = 2
          /\ bus[1].ok => ret = DecodeTemp(bus[1].data)

C9_ReadsNotCached ==
    /\ []C9_OneBlockReadPerCall
    /\ [][ ( /\ op = "read_magnetic_field" /\ op' = "read_magnetic_field"
             /\ nCalls' = nCalls + 1
             /\ ret.ok /\ bus'[1].ok /\ Len(bus'[1].data) = 6
             /\ bus'[1].data # bus[1].data )
           => (ret'.ok /\ ret' # ret) ]_vars

\* C9 witness: the second read call in a row has returned
C9_Witness ==
    /\ nCalls = 2 /\ nReads = 2
    /\ op = "read_magnetic_field" /\ ret.ok

\* C10: within an operation a failed bus transaction is the last one the
\* operation issues, and the operation returns an error.
C10_NoRetry ==
    /\ \A i \in 1..(Len(initBus) - 1) : initBus[i].ok
    /\ \A i \in 1..(Len(bus) - 1) : bus[i].ok
    /\ (initBus # <<>> /\ ~LastTxn(initBus).ok) => (pc = "failed" /\ ~ret.ok)
    /\ (bus # <<>> /\ ~LastTxn(bus).ok) => (pc = "idle" /\ ~ret.ok)

\* C10 witness: set_gain returned after its read of control register B failed
C10_Witness ==
    /\ op = "set_gain" /\ pc = "idle" /\ ~ret.ok
    /\ Len(bus) = 1 /\ bus[1].kind = "read" /\ ~bus[1].ok

\* C11: in every device state the driver's own operations reach, also
\* between the read and the write of a set_gain and after a set_gain that
\* failed, the selector bits of control register B are the whole pattern of
\* the gain recorded before the call or the whole pattern of the requested
\* gain, never 000 and never a mixture; and a step changes them only to the
\* whole pattern of the gain being requested.
C11_SelectorBitsInv ==
    constructed =>
        LET s == SelectorBits(device[CRB_REG_M])
        IN  /\ s # 0
            /\ \/ s = DocumentedPattern(gain)
               \/ op = "set_gain" /\ s = DocumentedPattern(arg)

C11_SelectorBitsAsUnit ==
    /\ []C11_SelectorBitsInv
    /\ [][ constructed =>
             \/ SelectorBits(device'[CRB_REG_M]) = SelectorBits(device[CRB_REG_M])
             \/ /\ op' = "set_gain"
                /\ SelectorBits(device'[CRB_REG_M]) = DocumentedPattern(arg') ]_vars

\* C11 witness: between the read and the write of set_gain(+/-1.9) while
\* +/-5.6 is configured
C11_Witness ==
    /\ pc = "sg_write" /\ op = "set_gain" /\ Len(bus) = 1
    /\ gain = "Gain_5_6" /\ arg = "Gain_1_9"
    /\ SelectorBits(device[CRB_REG_M]) = 192

\* C12: the match in set_gain gives each of the seven gains its own
\* combination of GN2, GN1, GN0, the one listed for it, so that the bits
\* written to control register B by a set_gain identify the gain requested.
C12_SettingInjective ==
    /\ setting("Gain_1_3") = GN0
    /\ setting("Gain_1_9") = GN1
    /\ setting("Gain_2_5") = GN1 + GN0
    /\ setting("Gain_4_0") = GN2
    /\ setting("Gain_4_7") = GN2 + GN0
    /\ setting("Gain_5_6") = GN2 + GN1
    /\ setting("Gain_8_1") = GN2 + GN1 + GN0
    /\ Cardinality({setting(g) : g \in Gain}) = 7
    /\ (op = "set_gain" /\ Len(bus) = 2) =>
          {g \in Gain : setting(g) = SelectorBits(bus[2].val)} = {arg}

\* C12 witness: set_gain(+/-4.7) wrote GN2 | GN0
C12_Witness ==
    /\ op = "set_gain" /\ pc = "idle" /\ ret.ok /\ Len(bus) = 2
    /\ arg = "Gain_4_7" /\ SelectorBits(bus[2].val) = 160

\* C13: when Magnetometer::new fails before any register write was issued
\* (the open failed) it returns FailedToOpenDevice, the chip is untouched and
\* no driver exists; when it fails after a write was issued (the open had
\* succeeded) the error is the transport's, not FailedToOpenDevice.
C13_OpenFailure ==
    /\ (op = "new" /\ pc = "failed" /\ initBus = <<>>) =>
          /\ ret = Err("FailedToOpenDevice")
          /\ ~constructed /\ gain = NoGain
          /\ device = PowerOn /\ bus = <<>>
    /\ (op = "new" /\ pc = "failed" /\ initBus # <<>>) =>
          (ret = Err("Transport") /\ ~constructed)
    /\ ret.kind = "FailedToOpenDevice" =>
          (op = "new" /\ pc = "failed" /\ initBus = <<>>)

\* C13 witness: Magnetometer::new could not open the bus device
C13_Witness ==
    /\ op = "new" /\ pc = "failed" /\ initBus = <<>>
    /\ ret.kind = "FailedToOpenDevice" /\ openAddr # NoAddr

\* C14: Magnetometer::new opens the device at the 7-bit address 0x1E, half
\* of the 8-bit write address 0x3C.
C14_BusAddress ==
    op = "new" =>
        (openAddr = 30 /\ 2 * openAddr = 60 /\ openAddr \in 0..127)

\* C14 witness: a driver built by Magnetometer::new
C14_Witness ==
    op = "new" /\ constructed /\ pc = "idle" /\ openAddr = 30

\* C15: the value set_gain writes to control register B is the value it
\* read with GN2, GN1, GN0 replaced by the pattern of the requested gain:
\* bits 4..0 of the written value are bits 4..0 of the value read.
C15_OnlySelectorBitsChange ==
    /\ (op = "set_gain" /\ Len(bus) = 2) =>
          /\ bus[2].val % 32 = bus[1].val % 32
          /\ SelectorBits(bus[2].val) = DocumentedPattern(arg)
    /\ (op = "set_gain" /\ pc = "sg_write") =>
          \A v \in 0..255 :
              NewFlags(CrbRegM_from_bits(v), arg)
                  = DocumentedPattern(arg) + (v % 32)

\* C15 witness: control register B read 0xA5 and set_gain(+/-1.9) wrote 0x45
C15_Witness ==
    /\ op = "set_gain" /\ pc = "idle" /\ ret.ok /\ Len(bus) = 2
    /\ bus[1].val = 165 /\ arg = "Gain_1_9" /\ bus[2].val = 69
    /\ device[CRB_REG_M] = 69

\* C16: a successful set_gain has issued exactly a read of control
\* register B followed by a write to it, and the recorded gain changes only
\* in the step whose write to control register B succeeded, to the
\* requested gain.
C16_TwoTransactions ==
    /\ (op = "set_gain" /\ pc = "idle" /\ ret.ok) =>
          /\ Len(bus) = 2
          /\ bus[1].kind = "read" /\ bus[1].reg = CRB_REG_M /\ bus[1].ok
          /\ bus[2].kind = "write" /\ bus[2].reg = CRB_REG_M /\ bus[2].ok
    /\ (op = "set_gain" /\ pc = "sg_write") =>
          (Len(bus) = 1 /\ bus[1].kind = "read" /\ gain = lastSet)

C16_GainAfterWrite ==
    /\ []C16_TwoTransactions
    /\ [][ (constructed /\ gain' # gain) =>
             /\ op' = "set_gain" /\ pc = "sg_write" /\ pc' = "idle"
             /\ Len(bus') = 2 /\ bus' # bus
             /\ LastTxn(bus').kind = "write" /\ LastTxn(bus').reg = CRB_REG_M
             /\ LastTxn(bus').ok
             /\ gain' = arg' /\ ret'.ok ]_vars

\* C16 witness: set_gain(+/-2.5) has succeeded
C16_Witness ==
    /\ op = "set_gain" /\ pc = "idle" /\ ret.ok /\ Len(bus) = 2
    /\ arg = "Gain_2_5" /\ gain = "Gain_2_5"

\* C17: read_magnetic_field and read_temperature, failing or not, leave
\* the recorded gain and the device as they were and issue no write; a raw
\* write through the transport leaves the recorded gain as it was; the
\* recorded gain changes only in a set_gain that succeeds.
C17_GainFrame ==
    [][ constructed =>
          /\ (op' \in {"read_magnetic_field", "read_temperature"}
                /\ nCalls' = nCalls + 1) =>
                /\ gain' = gain
                /\ device' = device
                /\ \A i \in 1..Len(bus') : bus'[i].kind # "write"
          /\ op' = "raw_write" => gain' = gain
          /\ gain' # gain => (op' = "set_gain" /\ ret'.ok /\ gain' = arg') ]_vars

\* C17 witness: after a raw write of 0xFF to control register B the
\* recorded gain +/-1.3 is not what the selector bits say
C17_Witness ==
    /\ op = "raw_write" /\ ret.ok /\ bus[1].val = 255
    /\ gain = "Gain_1_3"
    /\ SelectorBits(device[CRB_REG_M]) # DocumentedPattern(gain)

\* C18: a block read at TEMP_OUT_H_M that succeeds with 0 or 1 byte makes
\* read_temperature return an error, the one of the failed 16-bit read and
\* not NotEnoughData; a temperature is returned only from 2 bytes.
C18_ShortTemperatureRead ==
    op = "read_temperature" =>
        /\ (bus[1].ok /\ Len(bus[1].data) < 2) =>
              (~ret.ok /\ ret.kind = "Io" /\ ret.kind # "NotEnoughData")
        /\ ret.ok => (bus[1].ok /\ Len(bus[1].data) >= 2)

\* C18 witness: one byte came back
C18_Witness ==
    /\ op = "read_temperature" /\ bus[1].ok /\ Len(bus[1].data) = 1
    /\ ret = Err("Io")

====
